---- MODULE Spec2Model ----
(***************************************************************************)
(* Email finder: the email-validation pipeline (EmailValidationService),   *)
(* the pattern generator (EmailPatternService) and the confidence scorer.  *)
(*                                                                         *)
(* Spec       one validateEmail call: DNS lookup, the SMTP sessions of the *)
(*            target probe and of the catch-all probe, the result.         *)
(* SpecGen    generatePatterns applied to bounded inputs.                  *)
(* SpecScore  calculateConfidence applied to bounded inputs.               *)
(* SpecRate   rateLimitMiddleware and the counters of the cache.           *)
(* SpecFind   POST /find: the batch of candidate validations.              *)
(* SpecKeys   the API keys: issue, update, delete, apiKeyAuth.             *)
(* SpecRoute  POST /validate and the stored validation rows.               *)
(***************************************************************************)
EXTENDS Integers, Sequences, FiniteSets, TLC

VARIABLES
    pc,           \* position of the validateEmail call
    input,        \* its argument {email, validateSmtp, checkCatchAll}
    thrown,       \* message of the error the call rejected with, or Undefined
    result,       \* the EmailValidationResult the call resolved with, or NoResult
    mxRecords,    \* validateEmail's mxRecords array (sorted in place by validateSMTP)
    mxProvider,   \* validateEmail's mxProvider constant
    phase,        \* which validateSMTP call runs: "target", "catchAll" or "none"
    probeEmail,   \* the address that validateSMTP call probes
    mxIdx,        \* index of the exchanger validateSMTP's loop is at
    errors,       \* validateSMTP's local errors array
    smtpResult,   \* what validateSMTP returned for the target
    sock,         \* the current session's socket: "none", "connecting", "open", "closed"
    settled,      \* what connectToSMTP's promise settled with, NoResult while it is pending
    liveSockets,  \* history: sockets the call created that are neither closed nor destroyed
    response,     \* connectToSMTP's response buffer, as its lines
    written,      \* what the session has written to the socket, in order
    isValid,      \* connectToSMTP's isValid flag
    dnsLookups,   \* resolveMx calls made by the call
    dnsOutcome,   \* history: how resolveMx settled: "none", "answered" or "failed"
    connections,  \* createConnection calls made by the call
    allAccepting, \* history: every session of the call so far was AcceptingDialogue, closed by the server
    genIn,        \* generatePatterns' argument, or NoInput
    genOut,       \* generatePatterns' return value
    scoreIn,      \* calculateConfidence's arguments, or NoInput
    scoreOut,     \* calculateConfidence's return value
    rlClients,    \* the (API key, endpoint) pairs that send requests
    rlCount,      \* cache: the value of each rate_limit:<apiKey>:<endpoint> key, 0 when absent
    rlTtl,        \* cache: whether that key carries an expiry
    rlPending,    \* the request that read 1 from INCR is at its await of EXPIRE
    rlPassed,     \* history: requests of the key's window that passed the middleware
    rlRejected,   \* history: requests of the key's window answered 429
    rlUncounted,  \* history: requests of the key's window that passed after INCR failed
    rlFailures,   \* history: cache operations that failed so far
    findBody,     \* POST /find: the request body, or NoInput
    findPatterns, \* POST /find: the patterns array
    findTasks,    \* POST /find: the promises of patterns.map(...), by index
    findResponse, \* POST /find: the response, or NoResult
    akIssued,     \* the API keys POST /api-keys has returned, each with its row id
    akDb,         \* table api_keys: the row of each id, Null when there is none
    akCache,      \* cache: the value of each api_key:<keyId> entry, Null when absent
    akNow,        \* the clock the expiry dates are compared with
    akRevoked,    \* history: ids whose key is deactivated or deleted
    akLast,       \* what apiKeyAuth answered the request just handled, or NoResult
    rtRows,       \* table email_validations: the rows, in insertion order
    rtReqs,       \* the requests to POST /validate and the candidate tasks of POST /find
    rtNow         \* the clock the rows' expiry is compared with, in days

valVars == <<pc, input, thrown, result, mxRecords, mxProvider, phase, probeEmail, mxIdx, errors,
             smtpResult, sock, settled, liveSockets, response, written, isValid,
             dnsLookups, dnsOutcome, connections, allAccepting>>
genVars == <<genIn, genOut>>
scoreVars == <<scoreIn, scoreOut>>
rateVars == <<rlClients, rlCount, rlTtl, rlPending, rlPassed, rlRejected, rlUncounted, rlFailures>>
findVars == <<findBody, findPatterns, findTasks, findResponse>>
keyVars == <<akIssued, akDb, akCache, akNow, akRevoked, akLast>>
routeVars == <<rtRows, rtReqs, rtNow>>
apiVars == <<keyVars, routeVars>>
vars == <<valVars, genVars, scoreVars, rateVars, findVars, apiVars>>

(***************************************************************************)
(* Bounds of the model.                                                    *)
(***************************************************************************)
\* reply lines one server sends within one session
MaxReplies == 4

Undefined == "undefined"
NoResult == [none |-> TRUE]
NoInput == [none |-> TRUE]
EmptyRecord == [k \in {} |-> Undefined]

Min(a, b) == IF a < b THEN a ELSE b
Max(a, b) == IF a > b THEN a ELSE b
Range(s) == {s[i] : i \in 1..Len(s)}

(***************************************************************************)
(* String primitives of the runtime, on TLA+ strings.                      *)
(***************************************************************************)
\* String.prototype.startsWith
StartsWith(s, p) == Len(s) >= Len(p) /\ SubSeq(s, 1, Len(p)) = p

\* first index >= from at which p occurs in s, 0 when there is none
RECURSIVE IndexFrom(_, _, _)
IndexFrom(s, p, from) ==
    IF from + Len(p) - 1 > Len(s) THEN 0
    ELSE IF SubSeq(s, from, from + Len(p) - 1) = p THEN from
    ELSE IndexFrom(s, p, from + 1)

\* String.prototype.includes
Includes(s, p) == IndexFrom(s, p, 1) # 0

\* String.prototype.split with a non-empty separator
RECURSIVE Split(_, _)
Split(s, sep) ==
    LET i == IndexFrom(s, sep, 1) IN
    IF i = 0 THEN <<s>>
    ELSE <<SubSeq(s, 1, i - 1)>> \o Split(SubSeq(s, i + Len(sep), Len(s)), sep)

(***************************************************************************)
(* validateEmail: inputs and the environment's answers.                    *)
(***************************************************************************)
Emails == {"user@example.com", "user", "user@"}

\* email.split('@')[1]
DomainOf(email) ==
    LET parts == Split(email, "@") IN
    IF Len(parts) >= 2 THEN parts[2] ELSE Undefined

\* !domain
NoDomain(domain) == domain = Undefined \/ domain = ""

\* excerpt of the mxProviders table: the exchangers the resolver answers with
mxProviders(exchange) ==
    CASE exchange = "aspmx.l.google.com" -> "Google Workspace"
      [] exchange = "mail.protection.outlook.com" -> "Microsoft 365"
      [] OTHER -> Undefined

\* the exchangers of the probed domain's zone, and the priority the zone gives each
Exchanges == {"aspmx.l.google.com", "mail.protection.outlook.com"}
ZonePriority(exchange) == IF exchange = "aspmx.l.google.com" THEN 10 ELSE 5

\* what resolveMx can answer: records of distinct exchangers of the zone, in any order
DnsAnswers ==
    UNION {
        {[i \in 1..n |-> [exchange |-> a[i], priority |-> ZonePriority(a[i])]] :
            a \in {x \in [1..n -> Exchanges] :
                      \A i, j \in 1..n : i # j => x[i] # x[j]}}
        : n \in 0..Cardinality(Exchanges)}

\* codes resolveMx rejects with
DnsErrors == {"queryMx ENOTFOUND"}

\* lines a server may send; connectToSMTP looks at the prefix and at the mentions
ReplyLines == {"220 mx ready", "250 ok", "550 no such user"}

\* what one data event can deliver: between 1 and n whole reply lines
Chunks(n) == UNION {[1..m -> ReplyLines] : m \in 1..n}

\* messages of the socket's 'error' event
SocketErrors == {"connect ECONNREFUSED"}

\* Math.random().toString(36).substring(7)
RandomSuffixes == {"k3x9a"}

(***************************************************************************)
(* EmailValidationService: pure helpers.                                   *)
(***************************************************************************)
\* a record holding key k when v is defined, no key otherwise
Opt(k, v) == IF v = Undefined THEN EmptyRecord ELSE [x \in {k} |-> v]

\* the value of key k of record r, Undefined when r has no such key
Get(r, k) == IF k \in DOMAIN r THEN r[k] ELSE Undefined

\* getMXRecords: records.map(...)
MapRecords(records) ==
    [i \in 1..Len(records) |->
        [exchange |-> records[i].exchange,
         priority |-> records[i].priority,
         provider |-> mxProviders(records[i].exchange)]]

\* detectMXProvider
RECURSIVE detectMXProvider(_)
detectMXProvider(records) ==
    IF records = <<>> THEN Undefined
    ELSE IF Head(records).provider # Undefined THEN Head(records).provider
    ELSE detectMXProvider(Tail(records))

\* Array.prototype.sort((a, b) => a.priority - b.priority): stable, in place
RECURSIVE InsertByPriority(_, _)
InsertByPriority(sorted, r) ==
    IF sorted = <<>> THEN <<r>>
    ELSE IF Head(sorted).priority <= r.priority
         THEN <<Head(sorted)>> \o InsertByPriority(Tail(sorted), r)
         ELSE <<r>> \o sorted

RECURSIVE SortByPriority(_)
SortByPriority(s) ==
    IF s = <<>> THEN <<>>
    ELSE InsertByPriority(SortByPriority(SubSeq(s, 1, Len(s) - 1)), s[Len(s)])

\* faulty variant of calculateConfidence: the bonus is given for any MX record
calculateConfidence_AnyMx(valid, isCatchAll, mxCount) ==
    LET c0 == IF valid THEN 80 ELSE 20
        c1 == IF isCatchAll THEN c0 - 20 ELSE c0
        c2 == IF mxCount >= 1 THEN c1 + 10 ELSE c1
    IN  Max(0, Min(100, c2))

\* EmailValidationService.calculateConfidence
calculateConfidence(valid, isCatchAll, mxCount) ==
    LET c0 == IF valid THEN 80 ELSE 20
        c1 == IF isCatchAll THEN c0 - 20 ELSE c0
        c2 == IF mxCount > 1 THEN c1 + 10 ELSE c1
    IN  Max(0, Min(100, c2))

\* validateEmail, line 155: mxRecords.length === 0
NoMx(records) == Len(records) = 0

\* faulty variant of SkipSmtp: the probes are skipped only when no catch-all check is asked for
SkipSmtp_UnlessCatchAll(inp) == ~inp.validateSmtp /\ ~inp.checkCatchAll

\* validateEmail, line 170: !validateSmtp
SkipSmtp(inp) == ~inp.validateSmtp

\* faulty variant of NoMxResult: the object of the branch below it
NoMxResult_AsMxOnly(email) ==
    [email |-> email, isValid |-> TRUE, isCatchAll |-> FALSE, mxRecords |-> <<>>,
     validationMethod |-> "mx-only", confidence |-> 70]

\* the object validateEmail returns when there are no MX records
NoMxResult(email) ==
    [email |-> email, isValid |-> FALSE, isCatchAll |-> FALSE, mxRecords |-> <<>>,
     validationMethod |-> "mx-only", confidence |-> 0,
     errors |-> <<"No MX records found">>]

\* the object validateEmail returns when validateSmtp is false
MxOnlyResult(email, records, provider) ==
    [email |-> email, isValid |-> TRUE, isCatchAll |-> FALSE, mxRecords |-> records,
     validationMethod |-> "mx-only", confidence |-> 70]
    @@ Opt("mxProvider", provider)

\* the object validateEmail returns after the SMTP validation
SmtpPathResult(email, smtp, isCatchAll, records, provider) ==
    [email |-> email, isValid |-> smtp.isValid, isCatchAll |-> isCatchAll,
     mxRecords |-> records, validationMethod |-> "smtp",
     confidence |-> calculateConfidence(smtp.isValid, isCatchAll, Len(records))]
    @@ Opt("mxProvider", provider)
    @@ (IF "response" \in DOMAIN smtp THEN [smtpResponse |-> smtp.response] ELSE EmptyRecord)
    @@ (IF "errors" \in DOMAIN smtp THEN [errors |-> smtp.errors] ELSE EmptyRecord)

\* faulty variant of CatchResult: the error's message is not kept
CatchResult_NoMessage(email, message) ==
    [email |-> email, isValid |-> FALSE, isCatchAll |-> FALSE, mxRecords |-> <<>>,
     validationMethod |-> "smtp", confidence |-> 0, errors |-> <<"Unknown error">>]

\* the object validateEmail's catch block returns
CatchResult(email, message) ==
    [email |-> email, isValid |-> FALSE, isCatchAll |-> FALSE, mxRecords |-> <<>>,
     validationMethod |-> "smtp", confidence |-> 0, errors |-> <<message>>]

(***************************************************************************)
(* connectToSMTP: the 'data' handler.                                      *)
(***************************************************************************)
HELO == "HELO example.com"
MAILFROM == "MAIL FROM: <test@example.com>"
RCPTTO(email) == "RCPT TO: <" \o email \o ">"
QUIT == "QUIT"

\* faulty variant of HandleLine: the handshake goes on to DATA once a recipient is refused
\* or accepted
HandleLine_SendsData(st, line, email) ==
    IF StartsWith(line, "220")
    THEN [st EXCEPT !.written = Append(@, HELO)]
    ELSE IF StartsWith(line, "250")
    THEN [st EXCEPT !.written = Append(@, MAILFROM)]
    ELSE IF StartsWith(line, "550") \/ StartsWith(line, "551") \/ StartsWith(line, "553")
    THEN [written |-> Append(st.written, "DATA"), isValid |-> FALSE]
    ELSE st

\* the body of the handler's loop for one line; st = [written, isValid]
HandleLine(st, line, email) ==
    IF StartsWith(line, "220")
    THEN [st EXCEPT !.written = Append(@, HELO)]
    ELSE IF StartsWith(line, "250")
    THEN [st EXCEPT !.written = Append(@, MAILFROM)]
    ELSE IF StartsWith(line, "250") /\ Includes(line, "MAIL FROM")
    THEN [st EXCEPT !.written = Append(@, RCPTTO(email))]
    ELSE IF StartsWith(line, "250") /\ Includes(line, "RCPT TO")
    THEN [written |-> Append(st.written, QUIT), isValid |-> TRUE]
    ELSE IF StartsWith(line, "550") \/ StartsWith(line, "551") \/ StartsWith(line, "553")
    THEN [written |-> Append(st.written, QUIT), isValid |-> FALSE]
    ELSE st

\* for (const line of lines)
RECURSIVE HandleLines(_, _, _)
HandleLines(st, lines, email) ==
    IF lines = <<>> THEN st
    ELSE HandleLines(HandleLine(st, Head(lines), email), Tail(lines), email)

(***************************************************************************)
(* validateEmail as a state machine.                                       *)
(***************************************************************************)
AcceptingDialogue == <<"220 mx ready", "250 ok", "250 ok", "250 ok">>

InitVal ==
    /\ pc = "idle"
    /\ input = NoInput
    /\ thrown = Undefined
    /\ result = NoResult
    /\ mxRecords = <<>>
    /\ mxProvider = Undefined
    /\ phase = "none"
    /\ probeEmail = Undefined
    /\ mxIdx = 0
    /\ errors = <<>>
    /\ smtpResult = NoResult
    /\ sock = "none"
    /\ settled = NoResult
    /\ liveSockets = 0
    /\ response = <<>>
    /\ written = <<>>
    /\ isValid = FALSE
    /\ dnsLookups = 0
    /\ dnsOutcome = "none"
    /\ connections = 0
    /\ allAccepting = TRUE

InitIdleGen == genIn = NoInput /\ genOut = <<>>
InitIdleScore == scoreIn = NoInput /\ scoreOut = -1
InitIdleRate ==
    /\ rlClients = {}
    /\ rlCount = <<>>
    /\ rlTtl = <<>>
    /\ rlPending = <<>>
    /\ rlPassed = <<>>
    /\ rlRejected = <<>>
    /\ rlUncounted = <<>>
    /\ rlFailures = 0
InitIdleFind ==
    /\ findBody = NoInput
    /\ findPatterns = <<>>
    /\ findTasks = <<>>
    /\ findResponse = NoResult

InitIdleKeys ==
    /\ akIssued = {}
    /\ akDb = <<>>
    /\ akCache = <<>>
    /\ akNow = 0
    /\ akRevoked = {}
    /\ akLast = NoResult
InitIdleRoute ==
    /\ rtRows = <<>>
    /\ rtReqs = <<>>
    /\ rtNow = 0
InitIdleApi == InitIdleKeys /\ InitIdleRoute

\* messages of an error createConnection throws
ConnectErrors == {"Error: connect EINVAL"}

\* connectToSMTP up to its first await: the locals and createConnection(25, host), which
\* returns a socket or throws (the promise is rejected)
OpenSession ==
    /\ response' = <<>>
    /\ written' = <<>>
    /\ isValid' = FALSE
    /\ connections' = connections + 1
    /\ \/ /\ sock' = "connecting"
          /\ settled' = NoResult
          /\ liveSockets' = liveSockets + 1
       \/ /\ sock' = "none"
          /\ \E e \in ConnectErrors : settled' = [rejected |-> e]
          /\ UNCHANGED liveSockets

\* no session follows
NoSession ==
    /\ sock' = "none"
    /\ settled' = NoResult
    /\ response' = <<>>
    /\ written' = <<>>
    /\ isValid' = FALSE
    /\ UNCHANGED <<connections, liveSockets>>

\* the session is over: the promise is settled with res, the socket is closed or
\* destroyed, the locals of connectToSMTP are dead
EndSession(res) ==
    /\ sock' = "closed"
    /\ settled' = res
    /\ liveSockets' = liveSockets - 1
    /\ response' = <<>>
    /\ written' = <<>>
    /\ isValid' = FALSE

\* validateEmail returns r
Return(r) ==
    /\ pc' = "returned"
    /\ result' = r
    /\ phase' = "none"
    /\ NoSession

\* validateEmail, lines 145-149: the call and its format check; then getMXRecords
ValidateEmail ==
    /\ pc = "idle"
    /\ \E email \in Emails, validateSmtp \in BOOLEAN, checkCatchAll \in BOOLEAN :
        /\ input' = [email |-> email, validateSmtp |-> validateSmtp,
                     checkCatchAll |-> checkCatchAll]
        /\ IF NoDomain(DomainOf(email))
           THEN /\ pc' = "rejected"
                /\ thrown' = "Invalid email format"
                /\ UNCHANGED dnsLookups
           ELSE /\ pc' = "resolving"
                /\ dnsLookups' = dnsLookups + 1
                /\ UNCHANGED thrown
    /\ UNCHANGED <<result, mxRecords, mxProvider, phase, probeEmail, mxIdx, errors,
                   smtpResult, sock, settled, liveSockets, response, written, isValid,
                   dnsOutcome, connections, allAccepting>>
    /\ UNCHANGED <<genVars, scoreVars, rateVars, findVars, apiVars>>

\* faulty variant of ResolveMxFails: getMXRecords' error is not caught by validateEmail
ResolveMxFails_Propagates ==
    /\ pc = "resolving"
    /\ pc' = "rejected"
    /\ thrown' = "Failed to resolve MX records for " \o DomainOf(input.email)
    /\ dnsOutcome' = "failed"
    /\ UNCHANGED <<input, result, mxRecords, mxProvider, phase, probeEmail, mxIdx, errors,
                   smtpResult, sock, settled, liveSockets, response, written, isValid,
                   dnsLookups, connections, allAccepting>>
    /\ UNCHANGED <<genVars, scoreVars, rateVars, findVars, apiVars>>

\* resolveMx rejects: getMXRecords rethrows, validateEmail's catch block returns
ResolveMxFails ==
    /\ pc = "resolving"
    /\ \E e \in DnsErrors :
        Return(CatchResult(input.email,
            "Failed to resolve MX records for " \o DomainOf(input.email)
                \o ": Error: " \o e \o " " \o DomainOf(input.email)))
    /\ dnsOutcome' = "failed"
    /\ UNCHANGED <<input, thrown, mxRecords, mxProvider, probeEmail, mxIdx, errors,
                   smtpResult, dnsLookups, allAccepting>>
    /\ UNCHANGED <<genVars, scoreVars, rateVars, findVars, apiVars>>

\* resolveMx answers: lines 154-183, up to the first connectToSMTP of the target probe
ResolveMxAnswers ==
    /\ pc = "resolving"
    /\ \E answer \in DnsAnswers :
        LET records == MapRecords(answer)
            provider == detectMXProvider(records)
        IN
        IF NoMx(records)
        THEN /\ Return(NoMxResult(input.email))
             /\ UNCHANGED <<mxRecords, mxProvider, probeEmail, mxIdx>>
        ELSE IF SkipSmtp(input)
        THEN /\ Return(MxOnlyResult(input.email, records, provider))
             /\ mxRecords' = records
             /\ mxProvider' = provider
             /\ UNCHANGED <<probeEmail, mxIdx>>
        ELSE /\ pc' = "probing"
             /\ mxRecords' = SortByPriority(records)
             /\ mxProvider' = provider
             /\ phase' = "target"
             /\ probeEmail' = input.email
             /\ mxIdx' = 1
             /\ OpenSession
             /\ UNCHANGED result
    /\ dnsOutcome' = "answered"
    /\ UNCHANGED <<input, thrown, errors, smtpResult, dnsLookups, allAccepting>>
    /\ UNCHANGED <<genVars, scoreVars, rateVars, findVars, apiVars>>

\* validateSMTP has returned ret: the rest of validateEmail (lines 183-201) or of
\* checkCatchAll (lines 313-315)
AfterValidateSMTP(ret) ==
    IF phase = "target"
    THEN /\ smtpResult' = ret
         /\ IF input.checkCatchAll
            THEN \E suffix \in RandomSuffixes :
                 /\ phase' = "catchAll"
                 /\ probeEmail' = "nonexistent" \o suffix \o "@" \o DomainOf(input.email)
                 /\ mxIdx' = 1
                 /\ errors' = <<>>
                 /\ OpenSession
                 /\ UNCHANGED <<pc, result>>
            ELSE /\ Return(SmtpPathResult(input.email, ret, FALSE, mxRecords, mxProvider))
                 /\ UNCHANGED <<probeEmail, mxIdx, errors>>
    ELSE /\ Return(SmtpPathResult(input.email, smtpResult, ret.isValid, mxRecords,
                                  mxProvider))
         /\ UNCHANGED <<smtpResult, probeEmail, mxIdx, errors>>

\* connectToSMTP has settled with res: validateSMTP's loop, lines 248-257
AfterConnectToSMTP(res) ==
    IF "rejected" \notin DOMAIN res /\ res.isValid
    THEN AfterValidateSMTP([isValid |-> TRUE, response |-> res.response])
    ELSE LET error == IF "rejected" \in DOMAIN res
                      THEN "SMTP connection failed to " \o mxRecords[mxIdx].exchange
                               \o ": " \o res.rejected
                      ELSE IF Get(res, "error") \in {Undefined, ""}
                      THEN "SMTP validation failed" ELSE res.error
             errs == Append(errors, error)
         IN
         IF mxIdx < Len(mxRecords)
         THEN /\ mxIdx' = mxIdx + 1
              /\ errors' = errs
              /\ OpenSession
              /\ UNCHANGED <<pc, result, phase, probeEmail, smtpResult>>
         ELSE AfterValidateSMTP([isValid |-> FALSE, errors |-> errs])

\* validateSMTP resumes at its await of connectToSMTP
ValidateSMTPResumes ==
    /\ pc = "probing"
    /\ settled # NoResult
    /\ AfterConnectToSMTP(settled)
    /\ allAccepting' = (allAccepting /\ "rejected" \notin DOMAIN settled)
    /\ UNCHANGED <<input, thrown, mxRecords, mxProvider, dnsLookups, dnsOutcome>>
    /\ UNCHANGED <<genVars, scoreVars, rateVars, findVars, apiVars>>

\* socket 'connect'
SocketConnect ==
    /\ sock = "connecting"
    /\ sock' = "open"
    /\ written' = Append(written, HELO)
    /\ UNCHANGED <<pc, input, thrown, result, mxRecords, mxProvider, phase, probeEmail,
                   mxIdx, errors, smtpResult, settled, liveSockets, response, isValid,
                   dnsLookups, dnsOutcome, connections, allAccepting>>
    /\ UNCHANGED <<genVars, scoreVars, rateVars, findVars, apiVars>>

\* socket 'data': the chunk that arrived is appended to the buffer, then every line of
\* the buffer is handled
SocketData ==
    /\ sock = "open"
    /\ \E chunk \in Chunks(MaxReplies - Len(response)) :
        LET st == HandleLines([written |-> written, isValid |-> isValid],
                              response \o chunk, probeEmail)
        IN  /\ response' = response \o chunk
            /\ written' = st.written
            /\ isValid' = st.isValid
    /\ UNCHANGED <<pc, input, thrown, result, mxRecords, mxProvider, phase, probeEmail,
                   mxIdx, errors, smtpResult, sock, settled, liveSockets, dnsLookups,
                   dnsOutcome, connections, allAccepting>>
    /\ UNCHANGED <<genVars, scoreVars, rateVars, findVars, apiVars>>

\* what the session's events leave alone
SessionFrame ==
    /\ UNCHANGED <<pc, input, thrown, result, mxRecords, mxProvider, phase, probeEmail,
                   mxIdx, errors, smtpResult, dnsLookups, dnsOutcome, connections>>
    /\ UNCHANGED <<genVars, scoreVars, rateVars, findVars, apiVars>>

\* socket 'close' after the exchanger ended the session
SocketClose ==
    /\ sock = "open"
    /\ allAccepting' = (allAccepting /\ response = AcceptingDialogue)
    /\ EndSession([isValid |-> isValid, response |-> response])
    /\ SessionFrame

\* socket 'error'
SocketError ==
    /\ sock \in {"connecting", "open"}
    /\ allAccepting' = FALSE
    /\ \E message \in SocketErrors :
        EndSession([isValid |-> FALSE, error |-> message])
    /\ SessionFrame

\* faulty variant of Timeout: the promise is resolved, the socket is not destroyed
Timeout_NoDestroy ==
    /\ sock \in {"connecting", "open"}
    /\ allAccepting' = FALSE
    /\ sock' = "closed"
    /\ settled' = [isValid |-> FALSE, error |-> "Connection timeout"]
    /\ response' = <<>>
    /\ written' = <<>>
    /\ isValid' = FALSE
    /\ UNCHANGED liveSockets
    /\ SessionFrame

\* the timer fires: socket.destroy(), resolve
Timeout ==
    /\ sock \in {"connecting", "open"}
    /\ allAccepting' = FALSE
    /\ EndSession([isValid |-> FALSE, error |-> "Connection timeout"])
    /\ SessionFrame

Init == InitVal /\ InitIdleGen /\ InitIdleScore /\ InitIdleRate /\ InitIdleFind /\ InitIdleApi

Next ==
    \/ ValidateEmail
    \/ ResolveMxFails
    \/ ResolveMxAnswers
    \/ ValidateSMTPResumes
    \/ SocketConnect
    \/ SocketData
    \/ SocketClose
    \/ SocketError
    \/ Timeout

Spec == Init /\ [][Next]_vars

\* what the event loop guarantees: an armed timer fires unless it is cleared, and a
\* settled promise resumes its await; nothing makes the resolver or an exchanger act
SpecLive == Spec /\ WF_vars(Timeout) /\ WF_vars(ValidateSMTPResumes)

(***************************************************************************)
(* EmailPatternService.                                                    *)
(***************************************************************************)
UpperCase == "ABCDEFGHIJKLMNOPQRSTUVWXYZ"
LowerCase == "abcdefghijklmnopqrstuvwxyz"

\* String.prototype.toLowerCase, on the letters A-Z
RECURSIVE toLowerCase(_)
toLowerCase(s) ==
    IF s = "" THEN ""
    ELSE LET c == SubSeq(s, 1, 1)
             i == IndexFrom(UpperCase, c, 1)
         IN  (IF i = 0 THEN c ELSE SubSeq(LowerCase, i, i)) \o toLowerCase(Tail(s))

\* String.prototype.trim, on blanks
RECURSIVE trim(_)
trim(s) ==
    IF s = "" THEN ""
    ELSE IF SubSeq(s, 1, 1) = " " THEN trim(Tail(s))
    ELSE IF SubSeq(s, Len(s), Len(s)) = " " THEN trim(SubSeq(s, 1, Len(s) - 1))
    ELSE s

\* String.prototype.charAt(0)
charAt0(s) == IF s = "" THEN "" ELSE SubSeq(s, 1, 1)

\* String.prototype.replace(/p/g, r) for a literal p: every occurrence, left to right,
\* without rescanning what was inserted
RECURSIVE ReplaceAll(_, _, _)
ReplaceAll(s, p, r) ==
    IF Len(s) < Len(p) THEN s
    ELSE IF SubSeq(s, 1, Len(p)) = p
         THEN r \o ReplaceAll(SubSeq(s, Len(p) + 1, Len(s)), p, r)
         ELSE SubSeq(s, 1, 1) \o ReplaceAll(Tail(s), p, r)

\* the commonPatterns array, as written
commonPatterns ==
    << "firstname.lastname", "firstname_lastname", "firstname-lastname",
       "firstname.lastname", "f.lastname", "firstname.l", "flastname", "firstname",
       "lastname",
       "firstname.lastname", "firstname_lastname", "firstname-lastname",
       "firstname.lastname", "f.lastname", "firstname.l", "flastname", "firstname",
       "lastname" >>

\* faulty variant of domainSpecificPatterns: a listed domain has a template of its own
domainSpecificPatterns_OwnTemplate(domain) ==
    CASE domain = "google.com" -> <<"firstname.lastname", "firstname", "lastname.f">>
      [] domain = "microsoft.com" -> <<"firstname.lastname", "firstname_lastname">>
      [] OTHER -> <<>>

\* this.domainSpecificPatterns[domain] || [], on an excerpt of the table
domainSpecificPatterns(domain) ==
    CASE domain = "google.com" -> <<"firstname.lastname", "firstname", "lastname">>
      [] domain = "microsoft.com" -> <<"firstname.lastname", "firstname_lastname">>
      [] OTHER -> <<>>

\* EmailPatternService.buildEmail; names = [first, last, firstInitial, lastInitial]
buildEmail(pattern, names, domain) ==
    LET s1 == ReplaceAll(pattern, "firstname", names.first)
        s2 == ReplaceAll(s1, "lastname", names.last)
        s3 == ReplaceAll(s2, "f.", names.firstInitial \o ".")
        s4 == ReplaceAll(s3, "l.", names.lastInitial \o ".")
        s5 == ReplaceAll(s4, "f", names.firstInitial)
        s6 == ReplaceAll(s5, "l", names.lastInitial)
    IN  s6 \o "@" \o domain

\* EmailPatternService.calculateConfidence
calculatePatternConfidence(pattern, type) ==
    LET c0 == 50
        c1 == CASE type = "common" -> c0 + 20
                [] type = "domain-specific" -> c0 + 30
                [] type = "custom" -> c0 + 10
                [] OTHER -> c0
        c2 == IF Includes(pattern, ".") THEN c1 + 10 ELSE c1
        c3 == IF Includes(pattern, "_") THEN c2 + 5 ELSE c2
        c4 == IF Includes(pattern, "-") THEN c3 + 5 ELSE c3
        c5 == IF Len(pattern) > 10 THEN c4 + 5 ELSE c4
    IN  Min(c5, 100)

\* the entries pushed for a list of templates of one type, with `bonus` added to the score
PushAll(templates, type, bonus, names, domain) ==
    [i \in 1..Len(templates) |->
        [pattern |-> templates[i],
         type |-> type,
         confidence |-> calculatePatternConfidence(templates[i], type) + bonus,
         example |-> buildEmail(templates[i], names, domain)]]

\* the companyPatterns array
companyPatterns(names) ==
    << names.first \o "." \o names.last,
       names.first \o "_" \o names.last,
       names.first \o "-" \o names.last,
       names.firstInitial \o "." \o names.last,
       names.first \o "." \o names.lastInitial,
       names.firstInitial \o names.last,
       names.first \o names.last >>

\* faulty variant of uniquePatterns: entries are compared by template, not by address
RECURSIVE uniquePatterns_ByTemplate(_)
uniquePatterns_ByTemplate(patterns) ==
    IF patterns = <<>> THEN <<>>
    ELSE LET init == SubSeq(patterns, 1, Len(patterns) - 1)
             last == patterns[Len(patterns)]
         IN  IF \E j \in 1..Len(init) : init[j].pattern = last.pattern
             THEN uniquePatterns_ByTemplate(init)
             ELSE Append(uniquePatterns_ByTemplate(init), last)

\* faulty variant of uniquePatterns: the last entry of an address is kept
RECURSIVE uniquePatterns_LastWins(_)
uniquePatterns_LastWins(patterns) ==
    IF patterns = <<>> THEN <<>>
    ELSE LET rest == Tail(patterns)
         IN  IF \E j \in 1..Len(rest) : rest[j].example = Head(patterns).example
             THEN uniquePatterns_LastWins(rest)
             ELSE <<Head(patterns)>> \o uniquePatterns_LastWins(rest)

\* patterns.filter((pattern, index, self) =>
\*     index === self.findIndex(p => p.example === pattern.example))
RECURSIVE uniquePatterns(_)
uniquePatterns(patterns) ==
    IF patterns = <<>> THEN <<>>
    ELSE LET init == SubSeq(patterns, 1, Len(patterns) - 1)
             last == patterns[Len(patterns)]
         IN  IF \E j \in 1..Len(init) : init[j].example = last.example
             THEN uniquePatterns(init)
             ELSE Append(uniquePatterns(init), last)

\* Array.prototype.sort((a, b) => b.confidence - a.confidence): stable
RECURSIVE InsertByConfidence(_, _)
InsertByConfidence(sorted, r) ==
    IF sorted = <<>> THEN <<r>>
    ELSE IF Head(sorted).confidence >= r.confidence
         THEN <<Head(sorted)>> \o InsertByConfidence(Tail(sorted), r)
         ELSE <<r>> \o sorted

RECURSIVE SortByConfidence(_)
SortByConfidence(s) ==
    IF s = <<>> THEN <<>>
    ELSE InsertByConfidence(SortByConfidence(SubSeq(s, 1, Len(s) - 1)), s[Len(s)])

\* generatePatterns, lines 144-148: the normalized names
NormalizedNames(inp) ==
    LET first == trim(toLowerCase(inp.firstName))
        last == trim(toLowerCase(inp.lastName))
    IN  [first |-> first, last |-> last,
         firstInitial |-> charAt0(first), lastInitial |-> charAt0(last)]

\* generatePatterns, lines 150-208: the patterns array before deduplication
AllPatterns(inp) ==
    LET names == NormalizedNames(inp) IN
       PushAll(commonPatterns, "common", 0, names, inp.domain)
    \o PushAll(domainSpecificPatterns(inp.domain), "domain-specific", 0, names, inp.domain)
    \o (IF inp.customPatterns # Undefined
        THEN PushAll(inp.customPatterns, "custom", 0, names, inp.domain)
        ELSE <<>>)
    \o (IF inp.companyName \notin {Undefined, ""}
        THEN PushAll(companyPatterns(names), "domain-specific", 10, names, inp.domain)
        ELSE <<>>)

\* EmailPatternService.generatePatterns
generatePatterns(inp) == SortByConfidence(uniquePatterns(AllPatterns(inp)))

(***************************************************************************)
(* generatePatterns applied to bounded inputs.                             *)
(***************************************************************************)
\* how many names of each pool the inputs are drawn from
MaxNames == 4

FirstNamePool == <<"John", "alfred", "christopher", "j.r", " Flo", "mary-ann">>
LastNamePool == <<"Doe", "fuller", "lee", "smith_jones", "Lloyd ", "o-neil">>
FirstNames == {FirstNamePool[i] : i \in 1..Min(MaxNames, Len(FirstNamePool))}
LastNames == {LastNamePool[i] : i \in 1..Min(MaxNames, Len(LastNamePool))}
Domains == {"example.com", "google.com", "microsoft.com"}
CompanyNames == {Undefined, "Acme"}
CustomPatternLists == {Undefined, <<"lastname.firstname", "firstname.lastname">>, <<"l-f">>}

GenInputs ==
    [firstName : FirstNames, lastName : LastNames, domain : Domains,
     companyName : CompanyNames, customPatterns : CustomPatternLists]

InitGen ==
    /\ InitVal
    /\ InitIdleScore
    /\ InitIdleRate
    /\ InitIdleFind
    /\ InitIdleApi
    /\ genIn \in GenInputs
    /\ genOut = <<>>

\* one generatePatterns call
GeneratePatterns ==
    /\ genOut = <<>>
    /\ genOut' = generatePatterns(genIn)
    /\ UNCHANGED <<genIn, valVars, scoreVars, rateVars, findVars, apiVars>>

NextGen == GeneratePatterns

SpecGen == InitGen /\ [][NextGen]_vars

(***************************************************************************)
(* EmailValidationService.calculateConfidence applied to bounded inputs.   *)
(***************************************************************************)
\* largest number of MX records the scorer is applied to
MaxMxCount == 12

ScoreInputs == [isValid : BOOLEAN, isCatchAll : BOOLEAN, mxCount : 0..MaxMxCount]

InitScore ==
    /\ InitVal
    /\ InitIdleGen
    /\ InitIdleRate
    /\ InitIdleFind
    /\ InitIdleApi
    /\ scoreIn \in ScoreInputs
    /\ scoreOut = -1

\* one calculateConfidence call
CalculateConfidence ==
    /\ scoreOut = -1
    /\ scoreOut' = calculateConfidence(scoreIn.isValid, scoreIn.isCatchAll, scoreIn.mxCount)
    /\ UNCHANGED <<scoreIn, valVars, genVars, rateVars, findVars, apiVars>>

NextScore == CalculateConfidence

SpecScore == InitScore /\ [][NextScore]_vars

(***************************************************************************)
(* rateLimitMiddleware and CacheService.incrementRateLimit.                *)
(***************************************************************************)
\* requests one window counts beyond the endpoint's limit
MaxOver == 2
\* cache operations that fail in one run
MaxCacheFailures == 2

ApiKeyIds == {"key_a", "key_b"}
Endpoints == {"/api/email/find", "/api/email/validate", "/api/email/history/:domain"}
RateClients == [apiKeyId : ApiKeyIds, endpoint : Endpoints]

\* the pairs that send requests in one run: an /email/find client and another one
ClientSets ==
    {S \in SUBSET RateClients :
        Cardinality(S) = 2 /\ \E c \in S : c.endpoint = "/api/email/find"}

\* incrementRateLimit, line 148: the cache key of an (API key, endpoint) pair
RateLimitKey(c) == "rate_limit:" \o c.apiKeyId \o ":" \o c.endpoint

\* faulty variant of maxRequests: the /email/find test never matches
maxRequests_FindUnmatched(endpoint) ==
    IF Includes(endpoint, "/emails/find") THEN 10
    ELSE IF Includes(endpoint, "/email/validate") THEN 50
    ELSE 100

\* rateLimitMiddleware, lines 126-132: the limit of an endpoint
maxRequests(endpoint) ==
    IF Includes(endpoint, "/email/find") THEN 10
    ELSE IF Includes(endpoint, "/email/validate") THEN 50
    ELSE 100

\* rateLimitMiddleware, lines 134-146: the status a request that read currentCount is
\* answered with (200 stands for: the request goes on to its handler)
Answer(c, currentCount) == IF currentCount > maxRequests(c.endpoint) THEN 429 ELSE 200

\* the history of a request of c answered with `status`
Answered(c, status, uncounted) ==
    /\ rlPassed' = IF status = 200 THEN [rlPassed EXCEPT ![c] = @ + 1] ELSE rlPassed
    /\ rlRejected' = IF status = 429 THEN [rlRejected EXCEPT ![c] = @ + 1] ELSE rlRejected
    /\ rlUncounted' = IF uncounted
                      THEN [rlUncounted EXCEPT ![c] = @ + 1] ELSE rlUncounted

InitRate ==
    /\ InitVal
    /\ InitIdleGen
    /\ InitIdleScore
    /\ InitIdleFind
    /\ InitIdleApi
    /\ rlClients \in ClientSets
    /\ rlCount = [k \in {RateLimitKey(c) : c \in rlClients} |-> 0]
    /\ rlTtl = [k \in {RateLimitKey(c) : c \in rlClients} |-> FALSE]
    /\ rlPending = [c \in rlClients |-> FALSE]
    /\ rlPassed = [c \in rlClients |-> 0]
    /\ rlRejected = [c \in rlClients |-> 0]
    /\ rlUncounted = [c \in rlClients |-> 0]
    /\ rlFailures = 0

\* a request whose connect or INCR throws: incrementRateLimit returns 0; the history
\* counts it into the window when the key exists with its expiry
IncrementFails ==
    \E c \in rlClients :
        /\ rlFailures < MaxCacheFailures
        /\ rlFailures' = rlFailures + 1
        /\ IF rlTtl[RateLimitKey(c)]
           THEN Answered(c, Answer(c, 0), TRUE)
           ELSE Answer(c, 0) = 200 /\ UNCHANGED <<rlPassed, rlRejected, rlUncounted>>
        /\ UNCHANGED <<rlClients, rlCount, rlTtl, rlPending>>
        /\ UNCHANGED <<valVars, genVars, scoreVars, findVars, apiVars>>

\* a request whose INCR creates the key: it goes on to EXPIRE
IncrementFirst ==
    \E c \in rlClients :
        /\ rlCount[RateLimitKey(c)] = 0
        /\ rlCount' = [rlCount EXCEPT ![RateLimitKey(c)] = 1]
        /\ rlPending' = [rlPending EXCEPT ![c] = TRUE]
        /\ UNCHANGED <<rlClients, rlTtl, rlPassed, rlRejected, rlUncounted, rlFailures>>
        /\ UNCHANGED <<valVars, genVars, scoreVars, findVars, apiVars>>

\* the request that created the key: EXPIRE succeeds, incrementRateLimit returns 1
ExpireSet ==
    \E c \in rlClients :
        /\ rlPending[c]
        /\ rlPending' = [rlPending EXCEPT ![c] = FALSE]
        /\ rlTtl' = [rlTtl EXCEPT ![RateLimitKey(c)] = TRUE]
        /\ Answered(c, Answer(c, 1), FALSE)
        /\ UNCHANGED <<rlClients, rlCount, rlFailures>>
        /\ UNCHANGED <<valVars, genVars, scoreVars, findVars, apiVars>>

\* the request that created the key: EXPIRE throws, incrementRateLimit returns 0
ExpireFails ==
    \E c \in rlClients :
        /\ rlPending[c]
        /\ rlFailures < MaxCacheFailures
        /\ rlFailures' = rlFailures + 1
        /\ rlPending' = [rlPending EXCEPT ![c] = FALSE]
        /\ Answered(c, Answer(c, 0), FALSE)
        /\ UNCHANGED <<rlClients, rlCount, rlTtl>>
        /\ UNCHANGED <<valVars, genVars, scoreVars, findVars, apiVars>>

\* a request whose INCR finds the key: incrementRateLimit returns the new value
Increment ==
    \E c \in rlClients :
        LET current == rlCount[RateLimitKey(c)] + 1 IN
        /\ current > 1
        /\ current <= maxRequests(c.endpoint) + MaxOver
        /\ rlCount' = [rlCount EXCEPT ![RateLimitKey(c)] = current]
        /\ Answered(c, Answer(c, current), FALSE)
        /\ UNCHANGED <<rlClients, rlTtl, rlPending, rlFailures>>
        /\ UNCHANGED <<valVars, genVars, scoreVars, findVars, apiVars>>

\* the cache drops a key whose expiry has come: the window is over
KeyExpires ==
    \E c \in rlClients :
        /\ rlTtl[RateLimitKey(c)]
        /\ rlCount' = [rlCount EXCEPT ![RateLimitKey(c)] = 0]
        /\ rlTtl' = [rlTtl EXCEPT ![RateLimitKey(c)] = FALSE]
        /\ rlPassed' = [rlPassed EXCEPT ![c] = 0]
        /\ rlRejected' = [rlRejected EXCEPT ![c] = 0]
        /\ rlUncounted' = [rlUncounted EXCEPT ![c] = 0]
        /\ UNCHANGED <<rlClients, rlPending, rlFailures>>
        /\ UNCHANGED <<valVars, genVars, scoreVars, findVars, apiVars>>

NextRate ==
    \/ IncrementFails
    \/ IncrementFirst
    \/ ExpireSet
    \/ ExpireFails
    \/ Increment
    \/ KeyExpires

SpecRate == InitRate /\ [][NextRate]_vars

(***************************************************************************)
(* POST /find: the batch of candidate validations.                         *)
(***************************************************************************)
Pending == [status |-> "pending"]
Null == "null"

\* request bodies: EmailFindRequest.parse throws on the last one
FindBodies ==
    [firstName : {"a"}, lastName : {"a", "b"}, domain : {"example.com"},
     validateEmails : BOOLEAN, checkLinkedIn : BOOLEAN]
    \cup {[invalid |-> TRUE]}

\* what validateEmail({email, validateSmtp: true, checkCatchAll: true, timeout}) returns
\* to the batch
FindValidations(email) ==
    { CatchResult(email, "Failed to resolve MX records for " \o DomainOf(email)
                         \o ": Error: queryMx ENOTFOUND " \o DomainOf(email)),
      SmtpPathResult(email, [isValid |-> FALSE, errors |-> <<"Connection timeout">>], FALSE,
                     MapRecords(<<[exchange |-> "aspmx.l.google.com", priority |-> 10]>>),
                     "Google Workspace") }

\* what linkedinService.verifyProfile and db.insert reject with
TaskFailures == {[message |-> "insert failed"], [message |-> ""]}

\* lines 100-113: the validation after the LinkedIn check
AfterLinkedIn(validation, checkLinkedIn) ==
    IF checkLinkedIn /\ validation.isValid
    THEN {validation @@ [linkedinVerified |-> FALSE],
          [validation EXCEPT !.confidence = @ + 15] @@ [linkedinVerified |-> TRUE]}
    ELSE {validation}

\* lines 89-136: what the promise of one pattern can settle with
TaskOutcomes(pattern, body) ==
    IF ~body.validateEmails
    THEN {[status |-> "fulfilled", value |-> pattern @@ [validation |-> Null]]}
    ELSE {[status |-> "fulfilled", value |-> pattern @@ [validation |-> v]] :
             v \in UNION {AfterLinkedIn(w, body.checkLinkedIn) :
                             w \in FindValidations(pattern.example)}}
         \cup {[status |-> "rejected", reason |-> r] : r \in TaskFailures}

\* lines 139-154: results.map(...)
processedResults(results, patterns) ==
    [index \in 1..Len(results) |->
        IF results[index].status = "fulfilled"
        THEN results[index].value
        ELSE patterns[index] @@
             [validation |->
                [isValid |-> FALSE, isCatchAll |-> FALSE, mxRecords |-> <<>>,
                 confidence |-> 0,
                 errors |-> <<IF Get(results[index].reason, "message") \in {Undefined, ""}
                              THEN "Validation failed"
                              ELSE results[index].reason.message>>]]]

InitFind ==
    /\ InitVal
    /\ InitIdleGen
    /\ InitIdleScore
    /\ InitIdleRate
    /\ InitIdleApi
    /\ findBody \in FindBodies
    /\ findPatterns = <<>>
    /\ findTasks = <<>>
    /\ findResponse = NoResult

\* lines 74-89: the body is parsed, the patterns are generated, the promises are created
FindStarts ==
    /\ findResponse = NoResult
    /\ findTasks = <<>>
    /\ IF "invalid" \in DOMAIN findBody
       THEN /\ findResponse' = [status |-> 400, error |-> "Invalid request"]
            /\ UNCHANGED <<findPatterns, findTasks>>
       ELSE LET patterns == generatePatterns(
                    [firstName |-> findBody.firstName, lastName |-> findBody.lastName,
                     domain |-> findBody.domain, companyName |-> Undefined,
                     customPatterns |-> Undefined])
            IN  /\ findPatterns' = patterns
                /\ findTasks' = [i \in 1..Len(patterns) |-> Pending]
                /\ UNCHANGED findResponse
    /\ UNCHANGED <<findBody, valVars, genVars, scoreVars, rateVars, apiVars>>

\* the promise of one pattern settles
CandidateSettles ==
    \E i \in 1..Len(findTasks) :
        /\ findTasks[i] = Pending
        /\ \E outcome \in TaskOutcomes(findPatterns[i], findBody) :
            findTasks' = [findTasks EXCEPT ![i] = outcome]
        /\ UNCHANGED <<findBody, findPatterns, findResponse>>
        /\ UNCHANGED <<valVars, genVars, scoreVars, rateVars, apiVars>>

\* faulty variant of FindResponds: Promise.all in place of Promise.allSettled
FindResponds_PromiseAll ==
    /\ findResponse = NoResult
    /\ findTasks # <<>>
    /\ \/ /\ \E i \in 1..Len(findTasks) : findTasks[i].status = "rejected"
          /\ findResponse' = [status |-> 400, error |-> "Invalid request"]
       \/ /\ \A i \in 1..Len(findTasks) : findTasks[i].status = "fulfilled"
          /\ findResponse' =
                [status |-> 200, domain |-> findBody.domain,
                 patterns |-> processedResults(findTasks, findPatterns)]
    /\ UNCHANGED <<findBody, findPatterns, findTasks>>
    /\ UNCHANGED <<valVars, genVars, scoreVars, rateVars, apiVars>>

\* lines 88, 139-159: Promise.allSettled has resolved, the handler returns
FindResponds ==
    /\ findResponse = NoResult
    /\ findTasks # <<>>
    /\ \A i \in 1..Len(findTasks) : findTasks[i] # Pending
    /\ findResponse' =
          [status |-> 200, domain |-> findBody.domain,
           patterns |-> processedResults(findTasks, findPatterns)]
    /\ UNCHANGED <<findBody, findPatterns, findTasks>>
    /\ UNCHANGED <<valVars, genVars, scoreVars, rateVars, apiVars>>

NextFind ==
    \/ FindStarts
    \/ CandidateSettles
    \/ FindResponds

SpecFind == InitFind /\ [][NextFind]_vars

(***************************************************************************)
(* API keys: POST /api-keys, PATCH and DELETE /api-keys/:id, apiKeyAuth.   *)
(***************************************************************************)
\* keys issued in one run
MaxKeys == 2
\* instants of the clock after the first
MaxTime == 1

NoRow == [none |-> TRUE]
NullDate == [null |-> TRUE]

\* what nanoid() and nanoid(32) return: strings over A-Za-z0-9_-
NanoIds == {"V1StGXR8", "a_b"}
NanoSecrets == {"s3cr3t", "p_q"}

\* POST /, lines 58-60
fullKey(keyId, keySecret) == "ef_" \o keyId \o "_" \o keySecret
bcryptHash(key) == [bcrypt |-> key]
bcryptCompare(key, hash) == hash.bcrypt = key

\* JSON.parse(JSON.stringify(row)): the dates come back as ISO strings
ToJson(row) ==
    [row EXCEPT !.expiresAt = IF "date" \in DOMAIN @ THEN [iso |-> @.date] ELSE @,
                !.lastUsedAt = IF "date" \in DOMAIN @ THEN [iso |-> @.date] ELSE @]

\* apiKeyAuth, line 46: !cachedKey.expiresAt || cachedKey.expiresAt > new Date(); an ISO
\* string compared with a Date is converted to NaN, and the comparison is false
CachedUnexpired(cachedKey, now) ==
    \/ cachedKey.expiresAt = NullDate
    \/ ("date" \in DOMAIN cachedKey.expiresAt /\ cachedKey.expiresAt.date > now)

\* apiKeyAuth, line 86: dbKey.expiresAt && dbKey.expiresAt <= new Date()
DbExpired(dbKey, now) ==
    "date" \in DOMAIN dbKey.expiresAt /\ dbKey.expiresAt.date <= now

\* the row of table api_keys with this id, the cache entry api_key:<keyId>
DbFind(keyId) == IF keyId \in DOMAIN akDb THEN akDb[keyId] ELSE NoRow
CacheGet(keyId) == IF keyId \in DOMAIN akCache THEN akCache[keyId] ELSE NoRow

\* the x-api-key headers of the requests: the issued keys, none, and a guess
PresentedKeys == {k.key : k \in akIssued} \cup {"", "ef_V1StGXR8_guess"}

\* apiKeyAuth, lines 22-37: the answer to a header that fails the checks made before any
\* lookup, NoResult when it passes them
FormatCheck(apiKey) ==
    IF apiKey = ""
    THEN [status |-> 401, message |-> "API key is required"]
    ELSE IF ~StartsWith(apiKey, "ef_") \/ Len(Split(apiKey, "_")) # 3
    THEN [status |-> 401, message |-> "Invalid API key format"]
    ELSE NoResult

\* apiKeyAuth, lines 57-92: the answer to a key looked up in the table, NoResult when
\* it is accepted
DbCheck(apiKey, dbKey, now) ==
    IF dbKey = NoRow
    THEN [status |-> 401, message |-> "Invalid API key"]
    ELSE IF ~bcryptCompare(apiKey, dbKey.keyHash)
    THEN [status |-> 401, message |-> "Invalid API key"]
    ELSE IF ~dbKey.isActive
    THEN [status |-> 401, message |-> "API key is inactive"]
    ELSE IF DbExpired(dbKey, now)
    THEN [status |-> 401, message |-> "API key has expired"]
    ELSE NoResult

InitKeys ==
    /\ InitVal
    /\ InitIdleGen
    /\ InitIdleScore
    /\ InitIdleRate
    /\ InitIdleFind
    /\ InitIdleRoute
    /\ akIssued = {}
    /\ akDb = [id \in NanoIds |-> NoRow]
    /\ akCache = [id \in NanoIds |-> NoRow]
    /\ akNow = 0
    /\ akRevoked = {}
    /\ akLast = NoResult

\* POST /api-keys: a key is generated, its row is inserted, the key is returned
CreateApiKey ==
    /\ Cardinality(akIssued) < MaxKeys
    /\ \E keyId \in NanoIds, keySecret \in NanoSecrets,
          expiresAt \in {NullDate} \cup {[date |-> t] : t \in 1..MaxTime} :
        /\ \A k \in akIssued : k.id # keyId
        /\ akDb' = [akDb EXCEPT ![keyId] =
                        [id |-> keyId, name |-> "key", isActive |-> TRUE,
                         keyHash |-> bcryptHash(fullKey(keyId, keySecret)),
                         lastUsedAt |-> NullDate, expiresAt |-> expiresAt]]
        /\ akIssued' = akIssued \cup {[key |-> fullKey(keyId, keySecret), id |-> keyId]}
    /\ akLast' = NoResult
    /\ UNCHANGED <<akCache, akNow, akRevoked>>
    /\ UNCHANGED <<valVars, genVars, scoreVars, rateVars, findVars, routeVars>>

\* apiKeyAuth for one request; request.apiKey is the answer's apiKey
ApiKeyAuth ==
    /\ \E apiKey \in PresentedKeys :
        IF FormatCheck(apiKey) # NoResult
        THEN /\ akLast' = [key |-> apiKey, keyId |-> Undefined, apiKey |-> NoRow]
                              @@ FormatCheck(apiKey)
             /\ UNCHANGED <<akDb, akCache>>
        ELSE LET keyId == Split(apiKey, "_")[2] IN
             \E cachedKey \in {CacheGet(keyId), NoRow} :
                IF /\ cachedKey # NoRow
                   /\ bcryptCompare(apiKey, cachedKey.keyHash)
                   /\ cachedKey.isActive
                   /\ CachedUnexpired(cachedKey, akNow)
                THEN /\ akLast' = [key |-> apiKey, keyId |-> keyId, apiKey |-> cachedKey,
                                   status |-> 200, message |-> "from cache"]
                     /\ UNCHANGED <<akDb, akCache>>
                ELSE LET dbKey == DbFind(keyId) IN
                     IF DbCheck(apiKey, dbKey, akNow) # NoResult
                     THEN /\ akLast' = [key |-> apiKey, keyId |-> keyId, apiKey |-> NoRow]
                                           @@ DbCheck(apiKey, dbKey, akNow)
                          /\ UNCHANGED <<akDb, akCache>>
                     ELSE /\ akCache' \in {[akCache EXCEPT ![keyId] = ToJson(dbKey)], akCache}
                          /\ akDb' = [akDb EXCEPT ![keyId].lastUsedAt = [date |-> akNow]]
                          /\ akLast' = [key |-> apiKey, keyId |-> keyId, apiKey |-> dbKey,
                                        status |-> 200, message |-> "from table"]
    /\ UNCHANGED <<akIssued, akNow, akRevoked>>
    /\ UNCHANGED <<valVars, genVars, scoreVars, rateVars, findVars, routeVars>>

\* request bodies of PATCH /api-keys/:id
UpdateBodies == {[isActive |-> TRUE], [isActive |-> FALSE], [name |-> "renamed"]}

\* PATCH /api-keys/:id on an existing key: the row is updated
PatchApiKey ==
    /\ \E id \in NanoIds, body \in UpdateBodies :
        /\ akDb[id] # NoRow
        /\ akDb' = [akDb EXCEPT ![id] = [f \in DOMAIN @ |->
                        IF f \in DOMAIN body THEN body[f] ELSE @[f]]]
        /\ akRevoked' = IF "isActive" \in DOMAIN body
                        THEN IF body.isActive THEN akRevoked \ {id} ELSE akRevoked \cup {id}
                        ELSE akRevoked
    /\ akLast' = NoResult
    /\ UNCHANGED <<akIssued, akCache, akNow>>
    /\ UNCHANGED <<valVars, genVars, scoreVars, rateVars, findVars, routeVars>>

\* DELETE /api-keys/:id on an existing key: the row is deleted
DeleteApiKey ==
    /\ \E id \in NanoIds :
        /\ akDb[id] # NoRow
        /\ akDb' = [akDb EXCEPT ![id] = NoRow]
        /\ akRevoked' = akRevoked \cup {id}
    /\ akLast' = NoResult
    /\ UNCHANGED <<akIssued, akCache, akNow>>
    /\ UNCHANGED <<valVars, genVars, scoreVars, rateVars, findVars, routeVars>>

\* the cache drops an api_key entry whose 300 seconds are over
CacheEntryExpires ==
    /\ \E id \in NanoIds :
        /\ akCache[id] # NoRow
        /\ akCache' = [akCache EXCEPT ![id] = NoRow]
    /\ akLast' = NoResult
    /\ UNCHANGED <<akIssued, akDb, akNow, akRevoked>>
    /\ UNCHANGED <<valVars, genVars, scoreVars, rateVars, findVars, routeVars>>

\* time passes
Tick ==
    /\ akNow < MaxTime
    /\ akNow' = akNow + 1
    /\ akLast' = NoResult
    /\ UNCHANGED <<akIssued, akDb, akCache, akRevoked>>
    /\ UNCHANGED <<valVars, genVars, scoreVars, rateVars, findVars, routeVars>>

NextKeys ==
    \/ CreateApiKey
    \/ ApiKeyAuth
    \/ PatchApiKey
    \/ DeleteApiKey
    \/ CacheEntryExpires
    \/ Tick

SpecKeys == InitKeys /\ [][NextKeys]_vars

(***************************************************************************)
(* POST /validate and the candidate tasks of POST /find, with the table    *)
(* email_validations they share.                                           *)
(***************************************************************************)
\* requests handled in one run
MaxRequests == 2

RouteEmails == {"user@example.com", "info@example.com"}

\* the bodies EmailValidateRequest.parse accepts, and what a candidate task of /find
\* passes to validateEmail
ValidateBodies ==
    [route : {"/validate"}, email : RouteEmails, validateSmtp : BOOLEAN,
     checkCatchAll : {TRUE}, checkLinkedIn : BOOLEAN]
FindTaskBodies ==
    [route : {"/find"}, email : RouteEmails, validateSmtp : {TRUE},
     checkCatchAll : {TRUE}, checkLinkedIn : {TRUE}]

\* what resolveMx answers for the domain of RouteEmails
RouteDnsAnswers ==
    { <<[exchange |-> "aspmx.l.google.com", priority |-> 10],
        [exchange |-> "mail.protection.outlook.com", priority |-> 5]>> }

\* what validateEmail(body) returns, with the resolveMx and createConnection calls it
\* made: connectToSMTP never sets isValid (line 282 shadows line 286), every attempt is
\* recorded as an error and every exchanger is contacted in each probe
ValidateOutcomes(body) ==
    { [result |-> CatchResult(body.email,
                      "Failed to resolve MX records for " \o DomainOf(body.email)
                          \o ": Error: queryMx ENOTFOUND " \o DomainOf(body.email)),
       dnsLookups |-> 1, connections |-> 0],
      [result |-> NoMxResult(body.email), dnsLookups |-> 1, connections |-> 0] }
    \cup
    { LET records == MapRecords(answer)
          provider == detectMXProvider(records)
      IN  IF SkipSmtp(body)
          THEN [result |-> MxOnlyResult(body.email, records, provider),
                dnsLookups |-> 1, connections |-> 0]
          ELSE [result |-> SmtpPathResult(body.email,
                               [isValid |-> FALSE,
                                errors |-> [i \in 1..Len(records) |-> "Connection timeout"]],
                               FALSE, SortByPriority(records), provider),
                dnsLookups |-> 1,
                connections |-> Len(records) * (IF body.checkCatchAll THEN 2 ELSE 1)]
      : answer \in RouteDnsAnswers }

\* lines 241-255 and 116-130: the row inserted for a validation
RowOf(route, validation, now) ==
    [by |-> route, email |-> validation.email, isValid |-> validation.isValid,
     isCatchAll |-> validation.isCatchAll,
     mxRecords |-> [i \in 1..Len(validation.mxRecords) |-> validation.mxRecords[i].exchange],
     validationMethod |-> validation.validationMethod,
     confidence |-> validation.confidence, expiresAt |-> now + 1]
    @@ Opt("mxProvider", Get(validation, "mxProvider"))
    @@ (IF "linkedinVerified" \in DOMAIN validation
        THEN [linkedinVerified |-> validation.linkedinVerified] ELSE EmptyRecord)

\* lines 207-217: the answer made from a stored row
CachedResponse(cached) ==
    [k \in DOMAIN cached \ {"by", "expiresAt"} |-> cached[k]]

\* faulty variant of Unexpired: the rows are looked up by expiry only
Unexpired_AnyEmail(email) ==
    {i \in 1..Len(rtRows) : rtRows[i].expiresAt > rtNow}

\* lines 199-204: the rows findFirst can return for an email
Unexpired(email) ==
    {i \in 1..Len(rtRows) : rtRows[i].email = email /\ rtRows[i].expiresAt > rtNow}

InitRoute ==
    /\ InitVal
    /\ InitIdleGen
    /\ InitIdleScore
    /\ InitIdleRate
    /\ InitIdleFind
    /\ InitIdleKeys
    /\ rtRows = <<>>
    /\ rtReqs = <<>>
    /\ rtNow = 0

\* the record of a request once it is answered: of its body, the route and the email
\* are kept
Handled(req) ==
    [k \in DOMAIN req \ {"state", "body"} |-> req[k]]
    @@ [route |-> req.body.route, email |-> req.body.email]

\* a request comes in. POST /validate looks for a stored row (lines 195-218) and answers
\* from it or goes on to validateEmail; a candidate task of POST /find goes on to
\* validateEmail (lines 92-98). hit and overlaps are history: a row was there to answer
\* from, another POST /validate for the same email was still being handled
RequestStarts ==
    /\ Len(rtReqs) < MaxRequests
    /\ \E body \in ValidateBodies \cup FindTaskBodies :
        LET hit == \E i \in 1..Len(rtRows) :
                        rtRows[i].email = body.email /\ rtRows[i].expiresAt > rtNow
            overlaps == \E j \in 1..Len(rtReqs) :
                            /\ rtReqs[j].state = "validating"
                            /\ rtReqs[j].body.route = "/validate"
                            /\ rtReqs[j].body.email = body.email
            fresh == [body |-> body, hit |-> hit,
                      overlaps |-> (overlaps /\ body.route = "/validate"),
                      dnsLookups |-> 0, connections |-> 0, inserted |-> FALSE]
        IN  IF body.route = "/validate" /\ Unexpired(body.email) # {}
            THEN \E i \in Unexpired(body.email) :
                    rtReqs' = Append(rtReqs, Handled(fresh) @@
                                [state |-> "done", status |-> 200, fromRow |-> TRUE,
                                 response |-> CachedResponse(rtRows[i])])
            ELSE rtReqs' = Append(rtReqs, fresh @@ [state |-> "validating"])
    /\ UNCHANGED <<rtRows, rtNow>>
    /\ UNCHANGED <<valVars, genVars, scoreVars, rateVars, findVars, keyVars>>

\* faulty variant of RequestCompletes: the LinkedIn bonus is added to every validation
RequestCompletes_BonusAlways ==
    /\ \E r \in 1..Len(rtReqs) :
        /\ rtReqs[r].state = "validating"
        /\ \E o \in ValidateOutcomes(rtReqs[r].body) :
            LET validation == [o.result EXCEPT !.confidence = @ + 35]
                done == Handled(rtReqs[r])
            IN  /\ rtRows' = Append(rtRows, RowOf(rtReqs[r].body.route, validation, rtNow))
                /\ rtReqs' = [rtReqs EXCEPT ![r] =
                                [done EXCEPT !.dnsLookups = o.dnsLookups,
                                             !.connections = o.connections,
                                             !.inserted = TRUE]
                                @@ [state |-> "done", status |-> 200, fromRow |-> FALSE,
                                    response |-> validation]]
    /\ UNCHANGED rtNow
    /\ UNCHANGED <<valVars, genVars, scoreVars, rateVars, findVars, keyVars>>

\* validateEmail has returned: the LinkedIn check, the insert and the answer (lines
\* 228-257 and 100-135); the insert may throw, and the request is answered 400 (the
\* task's promise rejects)
RequestCompletes ==
    /\ \E r \in 1..Len(rtReqs) :
        /\ rtReqs[r].state = "validating"
        /\ \E o \in ValidateOutcomes(rtReqs[r].body) :
           \E validation \in AfterLinkedIn(o.result, rtReqs[r].body.checkLinkedIn) :
            LET done == Handled(rtReqs[r])
                counted == [done EXCEPT !.dnsLookups = o.dnsLookups,
                                        !.connections = o.connections]
            IN  \/ /\ rtRows' = Append(rtRows, RowOf(rtReqs[r].body.route, validation, rtNow))
                   /\ rtReqs' = [rtReqs EXCEPT ![r] =
                                    [counted EXCEPT !.inserted = TRUE]
                                    @@ [state |-> "done", status |-> 200, fromRow |-> FALSE,
                                        response |-> validation]]
                \/ /\ rtRows' = rtRows
                   /\ rtReqs' = [rtReqs EXCEPT ![r] =
                                    counted
                                    @@ [state |-> "done", status |-> 400, fromRow |-> FALSE,
                                        response |-> [error |-> "Invalid request"]]]
    /\ UNCHANGED rtNow
    /\ UNCHANGED <<valVars, genVars, scoreVars, rateVars, findVars, keyVars>>

\* a day passes: the rows inserted before it are expired
DayPasses ==
    /\ rtNow < MaxTime
    /\ rtNow' = rtNow + 1
    /\ UNCHANGED <<rtRows, rtReqs>>
    /\ UNCHANGED <<valVars, genVars, scoreVars, rateVars, findVars, keyVars>>

NextRoute ==
    \/ RequestStarts
    \/ RequestCompletes
    \/ DayPasses

SpecRoute == InitRoute /\ [][NextRoute]_vars

(***************************************************************************)
(* Properties of validateEmail (checked under Spec).                       *)
(***************************************************************************)
\* C1, as claimed: no validateEmail call ever rejects (raises to its caller), whatever
\* the email string, the resolver and the exchangers do.
C1_NeverRaises == pc # "rejected"

\* C1, amended: a call rejects only for an email without a non-empty '@domain' part,
\* with 'Invalid email format' and before any DNS lookup or connection; every call that
\* returns carries a result object, also after resolver and exchanger failures.
C1_RaisesOnlyFormatError ==
    /\ pc = "rejected" =>
        /\ NoDomain(DomainOf(input.email))
        /\ thrown = "Invalid email format"
        /\ result = NoResult
        /\ dnsLookups = 0
        /\ connections = 0
    /\ pc = "returned" =>
        /\ ~NoDomain(DomainOf(input.email))
        /\ thrown = Undefined
        /\ result # NoResult
        /\ result.email = input.email
    /\ (input # NoInput /\ ~NoDomain(DomainOf(input.email))) => pc # "rejected"

\* C1, witness: a call returned a result after one exchanger refused the connection and
\* another timed out.
C1_Witness ==
    /\ pc = "returned"
    /\ "errors" \in DOMAIN result
    /\ "Connection timeout" \in Range(result.errors)
    /\ "connect ECONNREFUSED" \in Range(result.errors)

\* C2: once the exchanger has answered 220 and then 250 three times (to HELO, to MAIL
\* FROM, to RCPT TO), the session has marked the address accepted and has written QUIT.
C2_AcceptedAfter250s ==
    (sock = "open" /\ response = AcceptingDialogue) =>
        (isValid /\ QUIT \in Range(written))

\* C3: when every session of a call with validateSmtp and checkCatchAll was answered
\* 220, 250, 250, 250 and closed by the exchanger, the result is flagged catch-all and
\* carries the penalized confidence (60 with one MX record, 70 with more).
C3_CatchAllPenalized ==
    (/\ pc = "returned"
     /\ result.validationMethod = "smtp"
     /\ dnsOutcome = "answered"
     /\ input.checkCatchAll
     /\ allAccepting) =>
        /\ result.isCatchAll
        /\ result.confidence = IF Len(result.mxRecords) > 1 THEN 70 ELSE 60

\* C13, as claimed: when resolveMx fails, or when a step of probing raises, the call
\* returns isValid = false, mxRecords = [], confidence = 0 and an errors list that
\* contains the failure's message.
C13_FailureZeroesResult ==
    [][(/\ pc' = "returned"
        /\ \/ dnsOutcome' = "failed"
           \/ (settled # NoResult /\ "rejected" \in DOMAIN settled)) =>
            /\ result'.isValid = FALSE
            /\ result'.mxRecords = <<>>
            /\ result'.confidence = 0
            /\ "errors" \in DOMAIN result'
            /\ \E k \in 1..Len(result'.errors) :
                \E e \in DnsErrors \cup ConnectErrors : Includes(result'.errors[k], e)]_vars

\* C13, amended: when resolveMx fails, the call returns isValid = false, mxRecords = [],
\* confidence = 0, method 'smtp' and an errors list whose entry contains the resolver's
\* message; when createConnection raises for the last exchanger, validateSMTP records
\* 'SMTP connection failed to <exchange>: <message>' and the call returns the smtp-path
\* result: isValid = false, the MX records kept, confidence 20 or 30.
C13_ResolutionFailureZeroesResult ==
    [][pc' = "returned" =>
        /\ dnsOutcome' = "failed" =>
            /\ result'.isValid = FALSE
            /\ result'.mxRecords = <<>>
            /\ result'.confidence = 0
            /\ result'.validationMethod = "smtp"
            /\ Len(result'.errors) = 1
            /\ \E e \in DnsErrors : Includes(result'.errors[1], e)
        /\ (settled # NoResult /\ "rejected" \in DOMAIN settled) =>
            /\ result'.isValid = FALSE
            /\ result'.mxRecords = mxRecords
            /\ Len(result'.mxRecords) >= 1
            /\ result'.validationMethod = "smtp"
            /\ result'.confidence = IF Len(mxRecords) > 1 THEN 30 ELSE 20
            /\ Len(result'.errors) = Len(mxRecords)
            /\ phase = "target" =>
                result'.errors[Len(mxRecords)] =
                    "SMTP connection failed to " \o mxRecords[mxIdx].exchange
                        \o ": " \o settled.rejected]_vars

\* C13, witness: a call returned after resolveMx failed.
C13_Witness ==
    /\ pc = "returned"
    /\ dnsOutcome = "failed"
    /\ dnsLookups = 1
    /\ connections = 0
    /\ result.confidence = 0

\* C14: in every result validateEmail returns, on the 'mx-only' path and on the 'smtp'
\* path, mxRecords is ordered by ascending priority, whatever order resolveMx answered in.
C14_SortedByPriority ==
    pc = "returned" =>
        \A i, j \in 1..Len(result.mxRecords) :
            i < j => result.mxRecords[i].priority <= result.mxRecords[j].priority

\* C16: a session in which the exchanger greeted with 220 and answered 250 to every
\* command (to both HELO and to MAIL FROM at least) has written RCPT TO for the probed
\* address by the time it ends.
C16_RcptToWritten ==
    [][(/\ sock = "open"
        /\ sock' # "open"
        /\ Len(response) >= 4
        /\ response[1] = "220 mx ready"
        /\ \A i \in 2..Len(response) : response[i] = "250 ok") =>
            RCPTTO(probeEmail) \in Range(written)]_vars

\* C17: every validateEmail call that has started its network steps eventually returns:
\* neither a resolver that never answers nor an exchanger that never replies or never
\* closes keeps it pending.
C17_EventuallyReturns == (pc \in {"resolving", "probing"}) ~> (pc = "returned")

\* the session that settled with res gave a conclusive outcome: the accepting dialogue,
\* or a 550 / 551 / 553 reply
Conclusive(res) ==
    /\ "response" \in DOMAIN res
    /\ \/ res.response = AcceptingDialogue
       \/ \E i \in 1..Len(res.response) :
            \/ StartsWith(res.response[i], "550")
            \/ StartsWith(res.response[i], "551")
            \/ StartsWith(res.response[i], "553")

\* C18: once an exchanger has given a conclusive outcome for the address, validateSMTP
\* opens no connection to a further exchanger for that address.
C18_StopAtConclusive ==
    [][(settled # NoResult /\ Conclusive(settled)) =>
            ~(phase' = phase /\ connections' > connections)]_vars

\* C19: in the target probe, validateSMTP returns isValid = true right after an exchanger
\* accepted (220, then 250 to HELO, MAIL FROM and RCPT TO), without a connection to a
\* further exchanger; it returns isValid = false only after the last exchanger, and then
\* with one errors entry per exchanger.
C19_AcceptReturnsAtOnce ==
    [][(pc = "probing" /\ phase = "target" /\ settled # NoResult) =>
        /\ ("response" \in DOMAIN settled /\ settled.response = AcceptingDialogue) =>
            /\ smtpResult' # NoResult
            /\ smtpResult'.isValid
            /\ ~(phase' = "target" /\ connections' > connections)
        /\ (smtpResult' # NoResult /\ ~smtpResult'.isValid) =>
            /\ mxIdx = Len(mxRecords)
            /\ Len(smtpResult'.errors) = Len(mxRecords)]_vars

\* C20: within one call, at most one socket is open at any instant; a connection is
\* opened only when the previous attempt has settled (by close, error or timeout) and
\* its socket is gone, and within each probe the exchangers are contacted one after the
\* other in ascending priority.
C20_OneAtATimeInOrder ==
    [][/\ liveSockets' <= 1
       /\ connections' # connections =>
            /\ connections' = connections + 1
            /\ liveSockets = 0
            /\ sock \notin {"connecting", "open"}
            /\ \A i, j \in 1..Len(mxRecords') :
                i < j => mxRecords'[i].priority <= mxRecords'[j].priority
            /\ IF mxIdx' = 1
               THEN \/ pc = "resolving"
                    \/ phase = "target" /\ phase' = "catchAll" /\ settled # NoResult
               ELSE /\ mxIdx' = mxIdx + 1
                    /\ mxIdx' <= Len(mxRecords)
                    /\ phase' = phase
                    /\ mxRecords' = mxRecords
                    /\ settled # NoResult]_vars

\* C20, witness: the catch-all probe is in its session with the second exchanger, the
\* fourth connection of the call, and that socket is the only one open.
C20_Witness ==
    /\ pc = "probing"
    /\ phase = "catchAll"
    /\ mxIdx = 2
    /\ connections = 4
    /\ sock = "open"
    /\ liveSockets = 1
    /\ mxRecords[1].priority < mxRecords[2].priority
    /\ errors = <<"Connection timeout">>

\* C21: when the timer of an attempt fires before the session has ended, the socket is
\* destroyed and the attempt settles with isValid = false and 'Connection timeout';
\* nothing is written while no session is in progress; validateSMTP records the error
\* and goes on to the next exchanger, or returns its errors after the last one, and the
\* call does not reject; once validateEmail has returned, no socket it created is open.
C21_TimeoutAbandonsAttempt ==
    [][/\ (sock \in {"connecting", "open"} /\ settled' # NoResult
              /\ Get(settled', "error") = "Connection timeout") =>
            /\ liveSockets' = liveSockets - 1
            /\ liveSockets' = 0
            /\ sock' = "closed"
            /\ settled' = [isValid |-> FALSE, error |-> "Connection timeout"]
            /\ pc' = pc
       /\ sock' \notin {"connecting", "open"} => written' = <<>>
       /\ (pc = "probing" /\ settled # NoResult
              /\ Get(settled, "error") = "Connection timeout") =>
            /\ pc' # "rejected"
            /\ thrown' = Undefined
            /\ IF mxIdx < Len(mxRecords)
               THEN /\ mxIdx' = mxIdx + 1
                    /\ connections' = connections + 1
                    /\ errors' = Append(errors, "Connection timeout")
                    /\ pc' = "probing"
               ELSE \/ /\ phase = "target"
                       /\ smtpResult' = [isValid |-> FALSE,
                                         errors |-> Append(errors, "Connection timeout")]
                    \/ /\ phase = "catchAll"
                       /\ pc' = "returned"
                       /\ result'.isCatchAll = FALSE
       /\ pc' = "returned" => (liveSockets' = 0 /\ sock' = "none")]_vars

\* C21, witness: a call returned after the attempt at its first exchanger timed out in
\* mid-handshake and the second exchanger was contacted; no socket is left.
C21_Witness ==
    /\ pc = "returned"
    /\ connections = 2
    /\ liveSockets = 0
    /\ "errors" \in DOMAIN result
    /\ result.errors = <<"Connection timeout", "SMTP validation failed">>

\* C22: the mxProvider of a returned result is the provider label of the labelled MX
\* record with the lowest priority number, whatever order resolveMx answered in; it is
\* absent only when no record has a label.
C22_ProviderOfLowestPriority ==
    (pc = "returned" /\ dnsOutcome = "answered" /\ Len(result.mxRecords) >= 1) =>
        LET labelled == {i \in 1..Len(result.mxRecords) :
                            result.mxRecords[i].provider # Undefined}
        IN  IF labelled = {}
            THEN "mxProvider" \notin DOMAIN result
            ELSE /\ "mxProvider" \in DOMAIN result
                 /\ \E i \in labelled :
                      /\ result.mxProvider = result.mxRecords[i].provider
                      /\ \A j \in labelled :
                            result.mxRecords[i].priority <= result.mxRecords[j].priority

\* how many times the session has written command c
Times(c) == Cardinality({i \in 1..Len(written) : written[i] = c})

\* C24: within one session, however the replies are split into data events, HELO is
\* written at most twice (on connect and on the 220 greeting), MAIL FROM at most once
\* and QUIT at most once: a reply line is acted on once. Stated for the sessions in
\* which the exchanger sends one greeting, as its first line.
C24_CommandsAtMostOnce ==
    (\A i \in 1..Len(response) : StartsWith(response[i], "220") <=> i = 1) =>
        /\ Times(HELO) <= 2
        /\ Times(MAILFROM) <= 1
        /\ Times(QUIT) <= 1

\* C7: when resolveMx answers with zero records, validateEmail returns isValid = false,
\* isCatchAll = false, mxRecords = [], confidence = 0, validationMethod = 'mx-only' and
\* a non-empty error list, and no SMTP connection was opened.
C7_NoMxRecords ==
    (pc = "returned" /\ dnsOutcome = "answered" /\ mxRecords = <<>>) =>
        /\ result.isValid = FALSE
        /\ result.isCatchAll = FALSE
        /\ result.mxRecords = <<>>
        /\ result.confidence = 0
        /\ result.validationMethod = "mx-only"
        /\ "errors" \in DOMAIN result
        /\ Len(result.errors) > 0
        /\ connections = 0

\* C7, witness: a call returned after resolveMx answered with zero records.
C7_Witness ==
    /\ pc = "returned"
    /\ dnsOutcome = "answered"
    /\ mxRecords = <<>>
    /\ dnsLookups = 1

\* C8: with validateSmtp = false and at least one MX record, validateEmail returns
\* isValid = true, confidence = 70, validationMethod = 'mx-only', and at no point of the
\* call a connection is attempted, whatever checkCatchAll is.
C8_MxOnly ==
    /\ (input # NoInput /\ ~input.validateSmtp) => (connections = 0 /\ sock = "none")
    /\ (/\ pc = "returned"
        /\ dnsOutcome = "answered"
        /\ ~input.validateSmtp
        /\ Len(mxRecords) >= 1) =>
            /\ result.isValid = TRUE
            /\ result.confidence = 70
            /\ result.validationMethod = "mx-only"
            /\ Len(result.mxRecords) >= 1

\* C8, witness: a call with validateSmtp = false and checkCatchAll = true returned for a
\* domain with two MX records.
C8_Witness ==
    /\ pc = "returned"
    /\ ~input.validateSmtp
    /\ input.checkCatchAll
    /\ dnsOutcome = "answered"
    /\ Len(mxRecords) = 2

\* C9: everything a session writes to its socket is one of the commands HELO, MAIL FROM,
\* RCPT TO (for the probed address) and QUIT; DATA is never written.
C9_NoData ==
    \A i \in 1..Len(written) :
        /\ written[i] \in {HELO, MAILFROM, RCPTTO(probeEmail), QUIT}
        /\ written[i] # "DATA"

\* C9, witness: a session that was greeted, went on after a 250 and was refused has
\* written HELO, MAIL FROM and QUIT.
C9_Witness ==
    /\ sock = "open"
    /\ {HELO, MAILFROM, QUIT} \subseteq Range(written)
    /\ "550 no such user" \in Range(response)

(***************************************************************************)
(* Properties of rateLimitMiddleware (checked under SpecRate).             *)
(***************************************************************************)
\* the limits C11 states
ClaimedLimit(endpoint) ==
    CASE endpoint = "/api/email/find" -> 10
      [] endpoint = "/api/email/validate" -> 50
      [] OTHER -> 100

\* C11, as claimed: for each API key, within one window of the counter of an endpoint,
\* at most 10 requests to /email/find, 50 to /email/validate and 100 to any other
\* endpoint pass the middleware, and every further request of the window is answered 429.
C11_AtMostLimit ==
    \A c \in rlClients : rlPassed[c] <= ClaimedLimit(c.endpoint)

\* C11, amended: of the requests the cache counted, per API key, endpoint and window,
\* the first 10 / 50 / 100 pass and every further one is answered 429; a request whose
\* INCR fails reads 0 and passes uncounted.
C11_AtMostLimitOfCounted ==
    \A c \in rlClients :
        LET limit == ClaimedLimit(c.endpoint)
            count == rlCount[RateLimitKey(c)]
        IN  /\ rlPassed[c] - rlUncounted[c] <= limit
            /\ rlPassed[c] - rlUncounted[c] = Min(count, limit) - (IF rlPending[c] THEN 1 ELSE 0)
            /\ rlRejected[c] = Max(0, count - limit)

\* C11, witness: one API key has used up its /email/find window and was answered 429,
\* while the other pair has passed more requests than that in its own window.
C11_Witness ==
    \E c, d \in rlClients :
        /\ c.endpoint = "/api/email/find"
        /\ rlPassed[c] = 10
        /\ rlRejected[c] >= 1
        /\ rlPassed[d] = 11
        /\ rlUncounted[d] = 0

\* C27: whenever the counter of an (API key, endpoint) pair exists and no request is
\* between its INCR and its EXPIRE, the counter carries an expiry, also after a cache
\* operation has failed; so a pair that was answered 429 is admitted again once the
\* window is over.
C27_CounterCarriesExpiry ==
    \A c \in rlClients :
        (rlCount[RateLimitKey(c)] > 0 /\ ~rlPending[c]) => rlTtl[RateLimitKey(c)]

(***************************************************************************)
(* Properties of POST /find (checked under SpecFind).                      *)
(***************************************************************************)
\* C12: whatever subset of the candidates' promises rejects, the batch is answered 200
\* with exactly one entry per generated pattern, in the generator's order; the entry of
\* a rejected candidate carries isValid = false, confidence = 0 and a non-empty errors
\* list, the entry of every other candidate is what its own promise resolved with; a 400
\* answer is given only when no candidate was started.
C12_PartialFailure ==
    /\ (findResponse # NoResult /\ findResponse.status = 400) => findTasks = <<>>
    /\ (findResponse # NoResult /\ findResponse.status = 200) =>
        /\ Len(findResponse.patterns) = Len(findPatterns)
        /\ findPatterns = generatePatterns(
                [firstName |-> findBody.firstName, lastName |-> findBody.lastName,
                 domain |-> findBody.domain, companyName |-> Undefined,
                 customPatterns |-> Undefined])
        /\ \A i \in 1..Len(findPatterns) :
            LET entry == findResponse.patterns[i] IN
            /\ entry.pattern = findPatterns[i].pattern
            /\ entry.example = findPatterns[i].example
            /\ entry.type = findPatterns[i].type
            /\ entry.confidence = findPatterns[i].confidence
            /\ findTasks[i].status \in {"fulfilled", "rejected"}
            /\ findTasks[i].status = "rejected" =>
                /\ entry.validation.isValid = FALSE
                /\ entry.validation.confidence = 0
                /\ Len(entry.validation.errors) > 0
                /\ \A k \in 1..Len(entry.validation.errors) : entry.validation.errors[k] # ""
            /\ findTasks[i].status = "fulfilled" =>
                entry.validation = findTasks[i].value.validation
    /\ (findTasks # <<>> /\ \E i \in 1..Len(findTasks) : findTasks[i] = Pending) =>
        findResponse = NoResult

\* C12, witness: a batch was answered in which one candidate's promise rejected and
\* another candidate carries the result its validation returned.
C12_Witness ==
    /\ findResponse # NoResult
    /\ findResponse.status = 200
    /\ \E i, j \in 1..Len(findTasks) :
        /\ findTasks[i].status = "rejected"
        /\ findResponse.patterns[i].validation.errors = <<"insert failed">>
        /\ findTasks[j].status = "fulfilled"
        /\ findResponse.patterns[j].validation.validationMethod = "smtp"
        /\ findResponse.patterns[j].validation.confidence = 20

(***************************************************************************)
(* Properties of the API keys (checked under SpecKeys).                    *)
(***************************************************************************)
\* C25: a request that presents a key POST /api-keys has issued is never answered
\* 'Invalid API key format', and it is authenticated (request.apiKey is set) while the
\* key's row is active and unexpired.
C25_IssuedKeyPassesFormat ==
    \A k \in akIssued :
        (akLast # NoResult /\ akLast.key = k.key) =>
            /\ akLast.message # "Invalid API key format"
            /\ (akDb[k.id] # NoRow /\ akDb[k.id].isActive /\ ~DbExpired(akDb[k.id], akNow))
                    => akLast.apiKey # NoRow

\* C26: once a key has been deactivated or deleted, every request that presents it is
\* answered 401 and gets no request.apiKey, also while the key's cache entry is alive.
C26_RevokedKeyRejected ==
    (akLast # NoResult /\ akLast.keyId \in akRevoked) =>
        (akLast.status = 401 /\ akLast.apiKey = NoRow)

(***************************************************************************)
(* Properties of POST /validate and of the stored rows (under SpecRoute).  *)
(***************************************************************************)
\* the route of a request
RouteOf(req) == IF "body" \in DOMAIN req THEN req.body.route ELSE req.route

\* C28: a POST /validate that comes in while an unexpired row of its email is stored is
\* answered from a stored row of that email: it makes no DNS lookup and no connection
\* and inserts no row; no request is answered from a row of another email or from an
\* expired row; as long as no two POST /validate for one email overlapped, the
\* POST /validate requests have left at most one unexpired row per email.
C28_AnsweredFromStoredRow ==
    /\ \A r \in 1..Len(rtReqs) :
        (RouteOf(rtReqs[r]) = "/validate" /\ rtReqs[r].hit) =>
            /\ rtReqs[r].state = "done"
            /\ rtReqs[r].status = 200
            /\ rtReqs[r].fromRow
            /\ rtReqs[r].dnsLookups = 0
            /\ rtReqs[r].connections = 0
            /\ ~rtReqs[r].inserted
            /\ \E i \in 1..Len(rtRows) :
                /\ rtRows[i].email = rtReqs[r].email
                /\ rtReqs[r].response = CachedResponse(rtRows[i])
    /\ \A r \in 1..Len(rtReqs) :
        (rtReqs[r].state = "done" /\ rtReqs[r].fromRow) =>
            (rtReqs[r].hit /\ rtReqs[r].response.email = rtReqs[r].email)
    /\ (\A r \in 1..Len(rtReqs) : ~rtReqs[r].overlaps) =>
        \A email \in RouteEmails :
            Cardinality({i \in 1..Len(rtRows) :
                            /\ rtRows[i].by = "/validate"
                            /\ rtRows[i].email = email
                            /\ rtRows[i].expiresAt > rtNow}) <= 1

\* C28, witness: a POST /validate validated and stored its row; a later POST /validate
\* for the same email, asking for other checks, was answered from that row.
C28_Witness ==
    /\ Len(rtReqs) = 2
    /\ Len(rtRows) = 1
    /\ rtReqs[1].inserted
    /\ rtReqs[1].dnsLookups = 1
    /\ rtReqs[1].connections = 4
    /\ rtReqs[2].state = "done"
    /\ rtReqs[2].hit
    /\ rtReqs[2].fromRow
    /\ rtReqs[2].email = rtReqs[1].email
    /\ rtReqs[2].response.confidence = 30

C4_ConfidenceInRange ==
    \A i \in 1..Len(genOut) : genOut[i].confidence >= 0 /\ genOut[i].confidence <= 100

\* the substitution C5 describes: the template is read left to right, the longest token
\* first; the inserted names are not looked at again
RECURSIVE SubstituteTokens(_, _)
SubstituteTokens(t, names) ==
    IF t = "" THEN ""
    ELSE IF StartsWith(t, "firstname")
    THEN names.first \o SubstituteTokens(SubSeq(t, 10, Len(t)), names)
    ELSE IF StartsWith(t, "lastname")
    THEN names.last \o SubstituteTokens(SubSeq(t, 9, Len(t)), names)
    ELSE IF StartsWith(t, "f")
    THEN names.firstInitial \o SubstituteTokens(Tail(t), names)
    ELSE IF StartsWith(t, "l")
    THEN names.lastInitial \o SubstituteTokens(Tail(t), names)
    ELSE SubSeq(t, 1, 1) \o SubstituteTokens(Tail(t), names)

\* C5: the address of every entry made from a template (the common and the custom ones)
\* is the template with firstname, lastname, f and l replaced by the names and initials,
\* the letters of the names themselves left alone, followed by '@' and the domain.
C5_Substitution ==
    \A i \in 1..Len(genOut) :
        genOut[i].type \in {"common", "custom"} =>
            genOut[i].example =
                SubstituteTokens(genOut[i].pattern, NormalizedNames(genIn))
                    \o "@" \o genIn.domain

\* C6: the returned sequence holds no two entries with the same address, and its
\* confidences are non-increasing.
C6_UniqueAndSorted ==
    /\ \A i, j \in 1..Len(genOut) : i # j => genOut[i].example # genOut[j].example
    /\ \A i \in 1..(Len(genOut) - 1) : genOut[i].confidence >= genOut[i + 1].confidence

\* C6, witness: a call returned fewer entries than it had pushed, among them a custom and
\* a company-derived one, with different confidences.
C6_Witness ==
    /\ Len(genOut) > 1
    /\ Len(genOut) < Len(AllPatterns(genIn))
    /\ \E i, j \in 1..Len(genOut) :
        /\ genOut[i].type = "domain-specific"
        /\ genOut[j].type = "custom"
        /\ genOut[i].confidence > genOut[j].confidence

\* the local-part of an address
LocalPart(address) == Split(address, "@")[1]

\* C23: template substitution is idempotent: for every entry generatePatterns returns,
\* applying buildEmail's substitution to the entry's local-part, with the same names,
\* yields the same local-part again.
C23_SubstitutionIdempotent ==
    \A i \in 1..Len(genOut) :
        buildEmail(LocalPart(genOut[i].example), NormalizedNames(genIn), genIn.domain)
            = genOut[i].example

\* what C29 compares of an output: templates, provenances and confidences, in order
Provenances(out) ==
    [i \in 1..Len(out) |->
        [pattern |-> out[i].pattern, type |-> out[i].type, confidence |-> out[i].confidence]]

\* C29: for a domain of the domain-specific table and an input without companyName, no
\* returned entry has provenance 'domain-specific', and the output has the templates,
\* provenances and confidences of the output for an unlisted domain.
C29_TableEntriesDeduplicated ==
    (/\ genOut # <<>>
     /\ domainSpecificPatterns(genIn.domain) # <<>>
     /\ genIn.companyName = Undefined) =>
        /\ \A i \in 1..Len(genOut) : genOut[i].type # "domain-specific"
        /\ \A i \in 1..Len(domainSpecificPatterns(genIn.domain)) :
            \E j \in 1..Len(genOut) :
                /\ genOut[j].pattern = domainSpecificPatterns(genIn.domain)[i]
                /\ genOut[j].type = "common"
        /\ Provenances(genOut) =
              Provenances(generatePatterns([genIn EXCEPT !.domain = "example.com"]))

\* C29, witness: a call for a listed domain, without companyName, whose table entries
\* were pushed and then removed as duplicates of common entries.
C29_Witness ==
    /\ genOut # <<>>
    /\ genIn.domain = "microsoft.com"
    /\ genIn.companyName = Undefined
    /\ genIn.customPatterns # Undefined
    /\ \E i \in 1..Len(AllPatterns(genIn)) : AllPatterns(genIn)[i].type = "domain-specific"
    /\ \A i \in 1..Len(genOut) : genOut[i].type \in {"common", "custom"}

\* C15: for every input, the returned sequence holds the candidate made from the
\* template firstname.lastname with provenance 'common' and a confidence of at least 70;
\* for John, Doe and example.com that candidate is john.doe@example.com.
C15_FirstLastCandidate ==
    genOut # <<>> =>
        \E i \in 1..Len(genOut) :
            /\ genOut[i].pattern = "firstname.lastname"
            /\ genOut[i].type = "common"
            /\ genOut[i].confidence >= 70
            /\ genOut[i].example =
                  buildEmail("firstname.lastname", NormalizedNames(genIn), genIn.domain)
            /\ (genIn.firstName = "John" /\ genIn.lastName = "Doe"
                    /\ genIn.domain = "example.com") =>
                  genOut[i].example = "john.doe@example.com"

\* C15, witness: the call for John Doe at example.com, with a company name and custom
\* templates, returned john.doe@example.com as a common candidate.
C15_Witness ==
    /\ genIn # NoInput
    /\ genIn.firstName = "John"
    /\ genIn.lastName = "Doe"
    /\ genIn.domain = "example.com"
    /\ genIn.companyName # Undefined
    /\ genIn.customPatterns # Undefined
    /\ \E i \in 1..Len(genOut) :
        /\ genOut[i].example = "john.doe@example.com"
        /\ genOut[i].type = "common"
        /\ genOut[i].confidence = 85

(***************************************************************************)
(* Properties of calculateConfidence (checked under SpecScore).            *)
(***************************************************************************)
\* the value C10 states
ClaimedScore(valid, isCatchAll, mxCount) ==
    LET raw == (IF valid THEN 80 ELSE 20) - (IF isCatchAll THEN 20 ELSE 0)
               + (IF mxCount > 1 THEN 10 ELSE 0)
    IN  IF raw < 0 THEN 0 ELSE IF raw > 100 THEN 100 ELSE raw

\* C10: calculateConfidence(isValid, isCatchAll, mxCount) is the clamp to [0,100] of
\* (80 if isValid else 20) - (20 if isCatchAll) + (10 if mxCount > 1); it is 90 for
\* (true,false,2), 60 for (true,true,1), 20 for (false,false,1), and always in [0,100].
C10_Score ==
    scoreOut # -1 =>
        /\ scoreOut = ClaimedScore(scoreIn.isValid, scoreIn.isCatchAll, scoreIn.mxCount)
        /\ scoreOut >= 0 /\ scoreOut <= 100
        /\ scoreIn = [isValid |-> TRUE, isCatchAll |-> FALSE, mxCount |-> 2]
            => scoreOut = 90
        /\ scoreIn = [isValid |-> TRUE, isCatchAll |-> TRUE, mxCount |-> 1]
            => scoreOut = 60
        /\ scoreIn = [isValid |-> FALSE, isCatchAll |-> FALSE, mxCount |-> 1]
            => scoreOut = 20

\* C10, witness: the scorer was applied to an accepted address of a catch-all domain with
\* one MX record.
C10_Witness ==
    /\ scoreIn = [isValid |-> TRUE, isCatchAll |-> TRUE, mxCount |-> 1]
    /\ scoreOut = 60

====
